---- MODULE Spec2Model ----
(***************************************************************************)
(* Prediction proxy of src/server/index.js: postJson, deepFindNumber,      *)
(* choosePlausibleTotal, tryAllShapes and the /api/predict handler.        *)
(*                                                                         *)
(* JavaScript numbers are modelled as decimal floating point values        *)
(* m * 10^e with a four digit mantissa (1000 <= |m| <= 9999, or m = 0),    *)
(* plus Infinity, NaN and null.  Products of inputs with at most two       *)
(* significant digits are exact; Math.exp and Math.pow(10, x) are          *)
(* computed to about three significant digits.                             *)
(***************************************************************************)
EXTENDS Integers, Sequences, FiniteSets, TLC

VARIABLES
    \* ---- one call of choosePlausibleTotal --------------------------------
    rawNumber,      \* argument rawNumber
    features,       \* argument features (the request body)
    cands,          \* the local array cands after the last push
    chosen,         \* the returned candidate {n, rule}, or NoCand before a call
    prevOutcome,    \* rule and plausibility of the first of two calls
    \* ---- one call of deepFindNumber --------------------------------------
    doc,            \* the response document: [root, nodes]
    doc0,           \* the document as it was handed to deepFindNumber
    dfn,            \* the loop state: stack, visited, best, ret, done
    expanded,       \* per node: how often its entries were iterated
    pops,           \* number of while iterations executed
    firstSeen,      \* first non-hit numeric value met by the traversal
    \* ---- one /api/predict request ----------------------------------------
    pc,             \* "idle" | "awaiting" | "responded"
    body,           \* req.body
    calls,          \* the postJson calls issued so far, in order
    outcomes,       \* per settled call: the number found in its response, Null
                    \* when none was found, Rejected when the call failed
    last,           \* {status, json} of the postJson call the result was built from
    lastBody,       \* the upstream response that call received
    result,         \* what tryAllShapes returned, NoResult, or Thrown
    reply           \* what the handler sent to the caller

vars == <<rawNumber, features, cands, chosen, prevOutcome,
          doc, doc0, dfn, expanded, pops, firstSeen,
          pc, body, calls, outcomes, last, lastBody, result, reply>>

resolveVars  == <<rawNumber, features, cands, chosen, prevOutcome>>
extractVars  == <<doc, doc0, dfn, expanded, pops, firstSeen>>
dispatchVars == <<pc, body, calls, outcomes, last, lastBody, result, reply>>

(***************************************************************************)
(* Numbers                                                                 *)
(***************************************************************************)
Abs(i) == IF i < 0 THEN -i ELSE i
Sgn(i) == IF i < 0 THEN -1 ELSE IF i > 0 THEN 1 ELSE 0

Fin(m, e) == [k |-> "fin", m |-> m, e |-> e]
Zero      == Fin(0, 0)
Infinity  == [k |-> "inf", m |-> 1, e |-> 0]
NegInfinity == [k |-> "inf", m |-> -1, e |-> 0]
NaN       == [k |-> "nan", m |-> 0, e |-> 0]
Null      == [k |-> "null", m |-> 0, e |-> 0]

\* isFinite(x ?? NaN): null and undefined become NaN
isFinite(x) == x.k = "fin"

\* The double nearest m * 10^e, to four digits; beyond about 1.797e308 it is
\* an Infinity, below about 4.9e-324 it is 0.
RECURSIVE Norm(_, _)
Norm(m, e) ==
    IF m = 0 THEN Zero
    ELSE IF Abs(m) >= 10000 THEN Norm(Sgn(m) * (Abs(m) \div 10), e + 1)
    ELSE IF Abs(m) < 1000 THEN Norm(m * 10, e - 1)
    ELSE IF e > 305 \/ (e = 305 /\ Abs(m) > 1797)
         THEN (IF m > 0 THEN Infinity ELSE NegInfinity)
    ELSE IF e < -327 THEN Zero
    ELSE Fin(m, e)

FromInt(i) == Norm(i, 0)

\* a * b
Mul(a, b) ==
    IF a.k = "nan" \/ b.k = "nan" THEN NaN
    ELSE IF a.k = "inf" \/ b.k = "inf"
         THEN (IF a.m = 0 \/ b.m = 0 THEN NaN
               ELSE IF Sgn(a.m) * Sgn(b.m) > 0 THEN Infinity ELSE NegInfinity)
    ELSE Norm(a.m * b.m, a.e + b.e)

\* sign of a - b for finite a, b
Cmp(a, b) ==
    LET sa == Sgn(a.m)
        sb == Sgn(b.m)
        mag == IF a.e # b.e THEN (IF a.e < b.e THEN -1 ELSE 1)
               ELSE Sgn(Abs(a.m) - Abs(b.m))
    IN  IF sa # sb THEN Sgn(sa - sb)
        ELSE IF sa = 0 THEN 0
        ELSE sa * mag

Leq(a, b) == Cmp(a, b) <= 0

RECURSIVE Pow10Int(_)
Pow10Int(n) == IF n <= 0 THEN 1 ELSE 10 * Pow10Int(n - 1)

\* floor(m * c * 10^e) for an integer m * c that fits a machine word
ScaledFloor(mc, e) ==
    IF e >= 0 THEN mc * Pow10Int(e)
    ELSE IF -e > 9 THEN (IF mc < 0 THEN -1 ELSE 0)
    ELSE mc \div Pow10Int(-e)

Tenths      == <<1000, 1259, 1585, 1995, 2512, 3162, 3981, 5012, 6310, 7943>>
Hundredths  == <<1000, 1023, 1047, 1072, 1096, 1122, 1148, 1175, 1202, 1230>>
Thousandths == <<1000, 1002, 1005, 1007, 1009, 1012, 1014, 1016, 1019, 1021>>

\* 1000 * 10^(f/1000) for 0 <= f < 1000
Frac10(f) ==
    LET a == Tenths[(f \div 100) + 1]
        b == Hundredths[((f \div 10) % 10) + 1]
        c == Thousandths[(f % 10) + 1]
    IN  (((a * b) \div 1000) * c) \div 1000

\* 10^(y/1000): the double range ends at 10^308.254 and at 10^-323.3
Pow10Milli(y) ==
    IF y > 308254 THEN Infinity
    ELSE IF y < -323306 THEN Zero
    ELSE Fin(Frac10(y % 1000), (y \div 1000) - 3)

\* Math.pow(10, x)
MathPow10(x) ==
    IF x.k = "nan" THEN NaN
    ELSE IF x.k = "inf" THEN (IF x.m > 0 THEN Infinity ELSE Zero)
    ELSE IF x.m = 0 THEN Fin(1000, -3)
    ELSE IF x.e >= 0 THEN (IF x.m > 0 THEN Infinity ELSE Zero)
    ELSE Pow10Milli(ScaledFloor(x.m, x.e + 3))

\* Math.exp(x) = 10^(x * log10(e)), log10(e) = 0.43429...
MathExp(x) ==
    IF x.k = "nan" THEN NaN
    ELSE IF x.k = "inf" THEN (IF x.m > 0 THEN Infinity ELSE Zero)
    ELSE IF x.m = 0 THEN Fin(1000, -3)
    ELSE IF x.e >= 0 THEN (IF x.m > 0 THEN Infinity ELSE Zero)
    ELSE Pow10Milli(ScaledFloor(x.m * 43429, x.e - 2))

(***************************************************************************)
(* Strings are sequences of one-character strings.                         *)
(***************************************************************************)
Digits == <<"0", "1", "2", "3", "4", "5", "6", "7", "8", "9">>
IsDigit(c) == \E i \in 1..10 : Digits[i] = c
DigitVal(c) == (CHOOSE i \in 1..10 : Digits[i] = c) - 1

RECURSIVE DigitsVal(_)
DigitsVal(s) ==
    IF s = <<>> THEN 0
    ELSE 10 * DigitsVal(SubSeq(s, 1, Len(s) - 1)) + DigitVal(s[Len(s)])

AllDigits(s) == Len(s) >= 1 /\ \A i \in 1..Len(s) : IsDigit(s[i])

\* /^(-?\d+(\.\d+)?)$/
DecimalMatch(s) ==
    LET u == IF Len(s) >= 1 /\ s[1] = "-" THEN Tail(s) ELSE s
        dots == {i \in 1..Len(u) : u[i] = "."}
    IN  IF dots = {} THEN AllDigits(u)
        ELSE /\ Cardinality(dots) = 1
             /\ LET p == CHOOSE i \in dots : TRUE
                IN  /\ AllDigits(SubSeq(u, 1, p - 1))
                    /\ AllDigits(SubSeq(u, p + 1, Len(u)))

\* Number(s) for a string s that matches DecimalMatch
DecimalValue(s) ==
    LET neg == Len(s) >= 1 /\ s[1] = "-"
        u == IF neg THEN Tail(s) ELSE s
        dots == {i \in 1..Len(u) : u[i] = "."}
        p == IF dots = {} THEN Len(u) + 1 ELSE CHOOSE i \in dots : TRUE
        ds == SubSeq(u, 1, p - 1) \o SubSeq(u, p + 1, Len(u))
        fl == Len(u) - p
        v == DigitsVal(ds)
    IN  Norm(IF neg THEN -v ELSE v, IF fl > 0 THEN -fl ELSE 0)

\* v.replace(/[, ]/g, '')
StripSeparators(s) == SelectSeq(s, LAMBDA c : c \notin {",", " "})

\* s.trim(), for strings whose only white space is the blank
RECURSIVE Trim(_)
Trim(s) ==
    IF s = <<>> THEN s
    ELSE IF s[1] = " " THEN Trim(Tail(s))
    ELSE IF s[Len(s)] = " " THEN Trim(SubSeq(s, 1, Len(s) - 1))
    ELSE s

\* Number(s) for a string s of digits, blanks, commas, minus signs and
\* letters (no exponent, hex or "Infinity" forms, no leading or trailing dot)
StringToNumber(s) ==
    LET t == Trim(s)
    IN  IF t = <<>> THEN Zero
        ELSE IF DecimalMatch(t) THEN DecimalValue(t)
        ELSE NaN

(***************************************************************************)
(* JSON values.  Objects and arrays live in a heap: a document is          *)
(* [root |-> value, nodes |-> [id -> sequence of <<key, value>>]], the     *)
(* sequence being the order of Object.entries.                             *)
(***************************************************************************)
VNum(n)  == [t |-> "number", n |-> n, s |-> <<>>, r |-> 0]
VStr(s)  == [t |-> "string", n |-> Null, s |-> s, r |-> 0]
VRef(r)  == [t |-> "object", n |-> Null, s |-> <<>>, r |-> r]
VNull    == [t |-> "null", n |-> Null, s |-> <<>>, r |-> 0]
VBool    == [t |-> "boolean", n |-> Null, s |-> <<>>, r |-> 0]
VUndef   == [t |-> "undefined", n |-> Null, s |-> <<>>, r |-> 0]

\* Number(v) of a JSON value v that is no object
ToNumber(v) ==
    CASE v.t = "number"    -> v.n
      [] v.t = "string"    -> StringToNumber(v.s)
      [] v.t = "null"      -> Zero
      [] v.t = "boolean"   -> Fin(1000, -3)
      [] OTHER             -> NaN

(***************************************************************************)
(* choosePlausibleTotal                                                    *)
(***************************************************************************)
PL_MIN == 50000
PL_MAX == 2000000000

NullRule == "<null>"
Cand(n, rule) == [n |-> n, rule |-> rule]
NoCand   == Cand(Null, "<none>")

PerSqmRules == {"per_sqm", "exp_per_sqm", "pow10_per_sqm"}
\* rule.includes('per_sqm')
IncludesPerSqm(rule) == rule \in PerSqmRules

\* const area = Number(features.procedure_area) || 0
AreaOf(f) ==
    LET a == ToNumber(f.procedure_area)
    IN  IF a.k = "nan" \/ a = Zero THEN Zero ELSE a

\* push: const n = Number(val); if (Number.isFinite(n)) cands.push({n, rule})
Push(cs, val, rule) == IF isFinite(val) THEN Append(cs, Cand(val, rule)) ELSE cs

AreaPositive_inverted(area) == ~(area.k = "inf" \/ (area.k = "fin" /\ area.m > 0))
\* area > 0
AreaPositive(area) == area.k = "inf" \/ (area.k = "fin" /\ area.m > 0)

\* the seven pushes, in the order of the code
Candidates(raw, f) ==
    LET area == AreaOf(f)
        c1 == Push(<<>>, raw, "raw")
        c2 == IF AreaPositive(area)
              THEN Push(Push(Push(c1, Mul(raw, area), "per_sqm"),
                             Mul(MathExp(raw), area), "exp_per_sqm"),
                        Mul(MathPow10(raw), area), "pow10_per_sqm")
              ELSE c1
        c3 == Push(c2, MathExp(raw), "exp")
        c4 == Push(c3, MathPow10(raw), "pow10")
    IN  Push(c4, Mul(raw, FromInt(1000)), "x1000")

\* c.n >= PL_MIN && c.n <= PL_MAX
IsPlausible(c) == Leq(FromInt(PL_MIN), c.n) /\ Leq(c.n, FromInt(PL_MAX))

PlausibleOrder_noBonus(a, b) == Cmp(b.n, a.n)
\* the comparator of plausible.sort: per_sqm rules first, then larger n first
PlausibleOrder(a, b) ==
    LET aBonus == IF IncludesPerSqm(a.rule) THEN 1 ELSE 0
        bBonus == IF IncludesPerSqm(b.rule) THEN 1 ELSE 0
    IN  IF aBonus # bBonus THEN bBonus - aBonus ELSE Cmp(b.n, a.n)

\* the comparator of cands.sort: (a, b) => b.n - a.n
LargestOrder(a, b) == Cmp(b.n, a.n)

Order(a, b, byBonus) == IF byBonus THEN PlausibleOrder(a, b) ELSE LargestOrder(a, b)

\* x put into the sorted s behind every element that does not sort after it
RECURSIVE Insert(_, _, _)
Insert(s, x, byBonus) ==
    IF s = <<>> THEN <<x>>
    ELSE IF Order(s[Len(s)], x, byBonus) <= 0 THEN Append(s, x)
    ELSE Append(Insert(SubSeq(s, 1, Len(s) - 1), x, byBonus), s[Len(s)])

\* Array.prototype.sort (stable)
RECURSIVE Sort(_, _)
Sort(s, byBonus) ==
    IF s = <<>> THEN <<>>
    ELSE Insert(Sort(SubSeq(s, 1, Len(s) - 1), byBonus), s[Len(s)], byBonus)

\* lines 314-325: filter, sort, first element
SelectCandidate(cs, raw) ==
    LET plausible == SelectSeq(cs, IsPlausible)
    IN  IF Len(plausible) > 0 THEN Sort(plausible, TRUE)[1]
        ELSE IF Len(cs) > 0 THEN Sort(cs, FALSE)[1]
        ELSE Cand(raw, "raw")

choosePlausibleTotal(raw, f) == SelectCandidate(Candidates(raw, f), raw)

\* ---- inputs ------------------------------------------------------------
MaxRawExp == 6
RawMantissas == {-5, 0, 2, 5, 8, 125}
RawInputs == {Norm(d, k) : d \in RawMantissas, k \in -1..MaxRawExp}

Features(v) == [procedure_area |-> v]
AreaValues ==
    { VUndef, VNum(FromInt(-5)), VNum(Norm(5, -1)),
      VNum(FromInt(1000)), VNum(FromInt(1200)),
      VStr(<<"1", "2", "0", "0">>), VStr(<<"1", ",", "2", "0", "0">>) }
FeatureInputs == {Features(v) : v \in AreaValues}

Outcome(c) == [rule |-> c.rule, plausible |-> IsPlausible(c)]
NoOutcome  == [rule |-> "<none>", plausible |-> FALSE]

\* ---- one call per step -------------------------------------------------
\* a first call and a second one are followed; prevOutcome keeps what the
\* first returned
Resolve ==
    /\ prevOutcome = NoOutcome
    /\ \E raw \in RawInputs, f \in FeatureInputs :
        /\ rawNumber' = raw
        /\ features' = f
        /\ cands' = Candidates(raw, f)
        /\ chosen' = SelectCandidate(cands', raw)
    /\ prevOutcome' = IF chosen = NoCand THEN NoOutcome ELSE Outcome(chosen)
    /\ UNCHANGED <<extractVars, dispatchVars>>

(***************************************************************************)
(* deepFindNumber                                                          *)
(***************************************************************************)
UpperCase == <<"A", "C", "D", "E", "I", "L", "M", "N", "O", "P", "R", "T", "U", "V">>
LowerCase == <<"a", "c", "d", "e", "i", "l", "m", "n", "o", "p", "r", "t", "u", "v">>
\* the flag i of the regular expression
ToLower(c) ==
    IF \E i \in 1..Len(UpperCase) : UpperCase[i] = c
    THEN LowerCase[CHOOSE i \in 1..Len(UpperCase) : UpperCase[i] = c]
    ELSE c
Lower(s) == [i \in 1..Len(s) |-> ToLower(s[i])]

W_pred  == <<"p", "r", "e", "d">>
W_price == <<"p", "r", "i", "c", "e">>
\* pred(i(ct|cted)?)?_?price | price | pred(i(ct|ction)) | value | amount
HitWords ==
    {W_pred \o i \o u \o W_price :
        i \in {<<>>, <<"i">>, <<"i", "c", "t">>, <<"i", "c", "t", "e", "d">>},
        u \in {<<>>, <<"_">>}}
    \cup {W_price}
    \cup {W_pred \o <<"i">> \o t : t \in {<<"c", "t">>, <<"c", "t", "i", "o", "n">>}}
    \cup {<<"v", "a", "l", "u", "e">>, <<"a", "m", "o", "u", "n", "t">>}

Contains(s, w) ==
    \E i \in 1..Len(s) : i + Len(w) - 1 <= Len(s) /\ SubSeq(s, i, i + Len(w) - 1) = w

\* const keyHit = /.../i.test(k)
keyHit(k) == \E w \in HitWords : Contains(Lower(k), w)

\* the number a value counts as (lines 278-289), or Null
NumericOf(v) ==
    IF v.t = "number" /\ isFinite(v.n) THEN v.n
    ELSE IF v.t = "string" /\ DecimalMatch(StripSeparators(v.s))
         THEN (LET num == DecimalValue(StripSeparators(v.s))
               IN  IF isFinite(num) THEN num ELSE Null)
    ELSE Null

NoRet == [k |-> "<running>", m |-> 0, e |-> 0]

Take_anyKey(num, hit, best) == [ret |-> num, best |-> best]
\* if (keyHit) return num; if (best == null) best = num;
Take(num, hit, best) ==
    IF hit THEN [ret |-> num, best |-> best]
    ELSE [ret |-> NoRet, best |-> IF best = Null THEN num ELSE best]

\* the for loop over Object.entries(cur), from entry i on
RECURSIVE ScanEntries(_, _, _, _)
ScanEntries(es, i, best, pushed) ==
    IF i > Len(es) THEN [ret |-> NoRet, best |-> best, pushed |-> pushed]
    ELSE
      LET k == es[i][1]
          v == es[i][2]
          num == NumericOf(v)
      IN  IF v.t \in {"null", "undefined"}
            THEN ScanEntries(es, i + 1, best, pushed)
          ELSE IF v.t \in {"number", "string"}
            THEN IF num = Null THEN ScanEntries(es, i + 1, best, pushed)
                 ELSE LET t == Take(num, keyHit(k), best)
                      IN  IF t.ret # NoRet
                            THEN [ret |-> t.ret, best |-> t.best, pushed |-> pushed]
                            ELSE ScanEntries(es, i + 1, t.best, pushed)
          ELSE IF v.t = "object"
            THEN ScanEntries(es, i + 1, best, Append(pushed, v))
          ELSE ScanEntries(es, i + 1, best, pushed)

DfnStart(d) ==
    [stack |-> <<d.root>>, visited |-> {}, best |-> Null, ret |-> NoRet, done |-> FALSE]

Visit_forgetful(visited, r) == visited
\* visited.add(cur)
Visit(visited, r) == visited \cup {r}

\* one iteration of while (stack.length), stack not empty
Iterate(d, st) ==
    LET cur  == st.stack[Len(st.stack)]
        rest == SubSeq(st.stack, 1, Len(st.stack) - 1)
    IN  IF cur.t # "object" THEN [st EXCEPT !.stack = rest]
        ELSE IF cur.r \in st.visited THEN [st EXCEPT !.stack = rest]
        ELSE LET sc == ScanEntries(d.nodes[cur.r], 1, st.best, <<>>)
             IN  IF sc.ret # NoRet
                   THEN [st EXCEPT !.stack = rest, !.visited = Visit(@, cur.r),
                                   !.best = sc.best, !.ret = sc.ret, !.done = TRUE]
                   ELSE [st EXCEPT !.stack = rest \o sc.pushed,
                                   !.visited = Visit(@, cur.r), !.best = sc.best]

\* return best, after the loop
Finish(st) == [st EXCEPT !.ret = st.best, !.done = TRUE]

RECURSIVE RunDfn(_, _)
RunDfn(d, st) ==
    IF st.done THEN st.ret
    ELSE IF st.stack = <<>> THEN RunDfn(d, Finish(st))
    ELSE RunDfn(d, Iterate(d, st))

deepFindNumber(d) == RunDfn(d, DfnStart(d))

\* ---- documents ---------------------------------------------------------
NumNodes      == 2
MaxDocEntries == 3

K_price  == <<"p", "r", "i", "c", "e">>
K_Value  == <<"V", "a", "l", "u", "e">>
K_amount == <<"a", "m", "o", "u", "n", "t">>
K_id     == <<"i", "d">>
K_raw    == <<"r", "a", "w">>
K_data   == <<"d", "a", "t", "a">>
K_0      == <<"0">>

\* the entries a document is built from: a number and a string under hit
\* keys, a hit key without a number, a number and a string under other keys,
\* and two keys leading to each object
ScalarEntries ==
    << <<K_price, VNum(FromInt(7))>>,
       <<K_Value, VStr(<<"1", ",", "5">>)>>,
       <<K_amount, VStr(<<"x">>)>>,
       <<K_id, VNum(FromInt(3))>>,
       <<K_raw, VStr(<<"2", " ", "0">>)>> >>
EntryList(n) ==
    ScalarEntries \o [j \in 1..n |-> <<K_data, VRef(j)>>]
                  \o [j \in 1..n |-> <<K_0, VRef(j)>>]

\* the key of entry c of EntryList(n), as a number: the two keys of the
\* objects come after the keys of the scalar entries
KeyCode(c, n) ==
    IF c <= Len(ScalarEntries) THEN c
    ELSE IF c <= Len(ScalarEntries) + n THEN Len(ScalarEntries) + 1
    ELSE Len(ScalarEntries) + 2

\* A heap of n objects is written down entry by entry: a sequence of
\* <<object, index into EntryList(n)>>, the entries of object 1 first, then
\* those of object 2, and so on, each object's entries in their order.
Slots(n) == (1..n) \X (1..(Len(ScalarEntries) + 2 * n))

\* objects in ascending order, and no key twice in an object
IsHeapCode(f, n) ==
    /\ \A i \in 1..(Len(f) - 1) : f[i][1] <= f[i + 1][1]
    /\ \A i, j \in 1..Len(f) :
          (i < j /\ f[i][1] = f[j][1]) => KeyCode(f[i][2], n) # KeyCode(f[j][2], n)

OwnSlots(f, r) == SelectSeq(f, LAMBDA sl : sl[1] = r)
Decode(f, n) ==
    LET el == EntryList(n)
    IN  [r \in 1..n |-> [i \in 1..Len(OwnSlots(f, r)) |-> el[OwnSlots(f, r)[i][2]]]]

Document(root, nodes) == [root |-> root, nodes |-> nodes]
ScalarRoots == {VNull, VNum(FromInt(7)), VStr(<<"7">>)}

\* ---- what a document holds, told without the traversal -------------------
Children(d, r) ==
    {d.nodes[r][i][2].r : i \in {i \in 1..Len(d.nodes[r]) : d.nodes[r][i][2].t = "object"}}

RECURSIVE ReachFrom(_, _)
ReachFrom(d, S) ==
    LET T == S \cup UNION {Children(d, r) : r \in S}
    IN  IF T = S THEN S ELSE ReachFrom(d, T)

Reachable(d) == IF d.root.t = "object" THEN ReachFrom(d, {d.root.r}) ELSE {}

NumericsAt(d, r, hit) ==
    {NumericOf(d.nodes[r][i][2]) :
        i \in {i \in 1..Len(d.nodes[r]) : keyHit(d.nodes[r][i][1]) = hit}} \ {Null}

HitValues(d)    == UNION {NumericsAt(d, r, TRUE) : r \in Reachable(d)}
NonHitValues(d) == UNION {NumericsAt(d, r, FALSE) : r \in Reachable(d)}

FirstNonHit(es) ==
    LET idx == {i \in 1..Len(es) : NumericOf(es[i][2]) # Null /\ ~keyHit(es[i][1])}
    IN  IF idx = {} THEN Null
        ELSE NumericOf(es[CHOOSE i \in idx : \A j \in idx : i <= j][2])

ObjectEntries(d) ==
    UNION { {<<r, i>> : i \in {i \in 1..Len(d.nodes[r]) : d.nodes[r][i][2].t = "object"}} :
            r \in DOMAIN d.nodes }

\* ---- deepFindNumber, one loop iteration per step -----------------------
DfnIterate ==
    /\ ~dfn.done
    /\ dfn.stack # <<>>
    /\ dfn' = Iterate(doc, dfn)
    /\ pops' = pops + 1
    /\ LET cur == dfn.stack[Len(dfn.stack)]
           expands == cur.t = "object" /\ cur.r \notin dfn.visited
       IN  /\ expanded' = IF expands THEN [expanded EXCEPT ![cur.r] = @ + 1]
                          ELSE expanded
           /\ firstSeen' = IF expands /\ firstSeen = Null
                           THEN FirstNonHit(doc.nodes[cur.r]) ELSE firstSeen
    /\ UNCHANGED <<doc, doc0, resolveVars, dispatchVars>>

DfnReturn ==
    /\ ~dfn.done
    /\ dfn.stack = <<>>
    /\ dfn' = Finish(dfn)
    /\ UNCHANGED <<doc, doc0, expanded, pops, firstSeen, resolveVars, dispatchVars>>

(***************************************************************************)
(* postJson, tryAllShapes and the /api/predict handler                     *)
(***************************************************************************)
\* ---- what the upstream answers ------------------------------------------
\* A response is [statusCode, data]; statusCode 0 stands for an absent code.
\* data is the text received: either the text of a JSON document (held as
\* the document it denotes) or a text of the characters of TextAlphabet.
JsonData(d) == [kind |-> "json", doc |-> d, text |-> <<>>]
TextData(t) == [kind |-> "text", doc |-> Document(VNull, <<>>), text |-> t]

MaxTextLen   == 3
TextAlphabet == {"1", "0", ",", " ", "x"}
Texts ==
    UNION {[1..l -> TextAlphabet] : l \in 0..MaxTextLen}
    \cup {<<"1", ",", "2", "3", "4">>}

K_prediction == <<"p", "r", "e", "d", "i", "c", "t", "i", "o", "n">>
K_predicted_price ==
    <<"p", "r", "e", "d", "i", "c", "t", "e", "d", "_", "p", "r", "i", "c", "e">>
K_error == <<"e", "r", "r", "o", "r">>

DispatchDocs ==
    { Document(VRef(1), << << <<K_error, VStr(<<"x">>)>> >> >>),
      Document(VRef(1), << << <<K_predicted_price, VNum(FromInt(800))>> >> >>),
      Document(VRef(1), << << <<K_prediction, VNum(Norm(125, -1))>> >> >>),
      Document(VRef(1), << << <<K_Value, VNum(FromInt(5000000))>> >> >>),
      Document(VRef(1), << << <<K_id, VNum(FromInt(3))>>, <<K_data, VRef(2)>> >>,
                           << <<K_Value, VStr(<<"1", ",", "5">>)>> >> >>),
      Document(VRef(1), << << <<K_0, VRef(2)>> >>, << <<K_id, VNum(FromInt(3))>> >> >>),
      Document(VNull, <<>>) }

StatusCodes == {0, 200, 500}
Responses ==
    {[statusCode |-> c, data |-> d] :
        c \in StatusCodes,
        d \in {JsonData(x) : x \in DispatchDocs} \cup {TextData(t) : t \in Texts}}

RequestBodies ==
    {Features(v) : v \in {VUndef, VNum(FromInt(1000)), VStr(<<"1", "2", "0", "0">>)}}

\* ---- postJson ------------------------------------------------------------
\* whether JSON.parse accepts a text over TextAlphabet: it must be a JSON
\* number, white space around it allowed
JsonNumberText(t) ==
    LET u == Trim(t)
        w == IF Len(u) >= 1 /\ u[1] = "-" THEN Tail(u) ELSE u
    IN  /\ DecimalMatch(u)
        /\ (Len(w) >= 2 /\ w[1] = "0") => w[2] = "."

Parsable(data) == data.kind = "json" \/ data.text = <<>> \/ JsonNumberText(data.text)

\* catch { resolve({ ..., json: { raw: data } }) }
Unparsed(data) == Document(VRef(1), << << <<K_raw, VStr(data.text)>> >> >>)

\* JSON.parse(data || '{}'), or { raw: data } when that throws
ParseBody(data) ==
    IF data.kind = "json" THEN data.doc
    ELSE IF data.text = <<>> THEN Document(VRef(1), << <<>> >>)
    ELSE IF JsonNumberText(data.text)
         THEN Document(VNum(DecimalValue(Trim(data.text))), <<>>)
    ELSE Unparsed(data)

\* what postJson resolves with
postJson(resp) ==
    [status |-> IF resp.statusCode = 0 THEN 200 ELSE resp.statusCode,
     json   |-> ParseBody(resp.data)]

\* ---- tryAllShapes --------------------------------------------------------
Paths  == <<"/predict", "/">>
\* body, { data: body }, { data: [body] }
Shapes == <<"body", "{data: body}", "{data: [body]}">>
NumAttempts == Len(Paths) * Len(Shapes)

Call(path, shape, b) == [path |-> path, shape |-> shape, body |-> b]

AttemptAt_shapesOuter(i, b) ==
    Call(Paths[((i - 1) % Len(Paths)) + 1], Shapes[((i - 1) \div Len(Paths)) + 1], b)
\* the i-th pass of: for (const p of paths) for (const shape of shapes)
AttemptAt(i, b) ==
    Call(Paths[((i - 1) \div Len(Shapes)) + 1], Shapes[((i - 1) % Len(Shapes)) + 1], b)

FallbackCall_root(b) == Call(Paths[2], Shapes[1], b)
\* const last = await postJson(`${MODEL_BASE}/predict`, body)
FallbackCall(b) == Call("/predict", Shapes[1], b)

NoResult == [kind |-> "none", status |-> 0, raw |-> Document(VNull, <<>>),
             predicted_price_raw |-> Null, predicted_price |-> Null,
             used_rule |-> NullRule]
Thrown   == [NoResult EXCEPT !.kind = "thrown"]

\* lines 336-342
LoopResult(r, rawNum, b) ==
    LET c == choosePlausibleTotal(rawNum, b)
    IN  [kind |-> "value", status |-> r.status, raw |-> r.json,
         predicted_price_raw |-> rawNum,
         predicted_price |-> c.n,
         used_rule |-> c.rule]

LastResult_ruleKept(r, rawNum, b) ==
    [kind |-> "value", status |-> r.status, raw |-> r.json,
     predicted_price_raw |-> IF isFinite(rawNum) THEN rawNum ELSE Null,
     predicted_price |-> IF isFinite(rawNum) THEN choosePlausibleTotal(rawNum, b).n
                         ELSE Null,
     used_rule |-> "raw"]
\* lines 347-358
LastResult(r, rawNum, b) ==
    LET c == IF isFinite(rawNum) THEN choosePlausibleTotal(rawNum, b)
             ELSE Cand(Null, NullRule)
    IN  [kind |-> "value", status |-> r.status, raw |-> r.json,
         predicted_price_raw |-> IF isFinite(rawNum) THEN rawNum ELSE Null,
         predicted_price |-> IF isFinite(c.n) THEN c.n ELSE Null,
         used_rule |-> c.rule]

\* ---- the handler's answers ---------------------------------------------
Absent  == "<absent>"
NoReply == [status |-> 0, fields |-> {}, ok |-> FALSE, predicted_price |-> Null,
            predicted_price_raw |-> Null, used_rule |-> NullRule,
            raw |-> Document(VNull, <<>>), error |-> Absent]

\* res.status(result.status || 200).json({ ok: true, ... })
OkReply(res) ==
    [status |-> IF res.status = 0 THEN 200 ELSE res.status,
     fields |-> {"ok", "predicted_price", "predicted_price_raw", "used_rule", "raw"},
     ok |-> TRUE, predicted_price |-> res.predicted_price,
     predicted_price_raw |-> res.predicted_price_raw, used_rule |-> res.used_rule,
     raw |-> res.raw, error |-> Absent]

\* res.status(500).json({ ok: false, error: err?.message || String(err) })
ErrorReply ==
    [NoReply EXCEPT !.status = 500, !.fields = {"ok", "error"}, !.error = "err.message"]

\* ---- steps ---------------------------------------------------------------
\* app.post('/api/predict'): the handler runs up to the first await
Receive ==
    /\ pc = "idle"
    /\ \E b \in RequestBodies :
        /\ body' = b
        /\ calls' = <<AttemptAt(1, b)>>
    /\ pc' = "awaiting"
    /\ UNCHANGED <<outcomes, last, lastBody, result, reply, resolveVars, extractVars>>

\* the pending postJson resolves; tryAllShapes runs on to its next await or
\* to its return, and the handler answers
PostJsonResolves ==
    /\ pc = "awaiting"
    /\ \E resp \in Responses :
        LET r == postJson(resp)
            rawNum == deepFindNumber(r.json)
            i == Len(calls)
        IN  /\ outcomes' = Append(outcomes, rawNum)
            /\ IF i <= NumAttempts /\ isFinite(rawNum)
                 THEN /\ result' = LoopResult(r, rawNum, body)
                      /\ reply' = OkReply(result')
                      /\ pc' = "responded"
                      /\ lastBody' = resp
                      /\ last' = r
                      /\ UNCHANGED calls
               ELSE IF i < NumAttempts
                 THEN /\ calls' = Append(calls, AttemptAt(i + 1, body))
                      /\ UNCHANGED <<pc, result, reply, last, lastBody>>
               ELSE IF i = NumAttempts
                 THEN /\ calls' = Append(calls, FallbackCall(body))
                      /\ UNCHANGED <<pc, result, reply, last, lastBody>>
               ELSE /\ result' = LastResult(r, rawNum, body)
                    /\ reply' = OkReply(result')
                    /\ pc' = "responded"
                    /\ lastBody' = resp
                    /\ last' = r
                    /\ UNCHANGED calls
    /\ UNCHANGED <<body, resolveVars, extractVars>>

Rejected == [k |-> "<rejected>", m |-> 0, e |-> 0]

PostJsonRejects_skipped ==
    /\ pc = "awaiting"
    /\ Len(calls) < NumAttempts
    /\ outcomes' = Append(outcomes, Rejected)
    /\ calls' = Append(calls, AttemptAt(Len(calls) + 1, body))
    /\ UNCHANGED <<pc, body, last, lastBody, result, reply, resolveVars, extractVars>>
\* req.on('error', reject): the await throws, tryAllShapes rejects and the
\* handler's catch answers
PostJsonRejects ==
    /\ pc = "awaiting"
    /\ outcomes' = Append(outcomes, Rejected)
    /\ result' = Thrown
    /\ reply' = ErrorReply
    /\ pc' = "responded"
    /\ UNCHANGED <<body, calls, last, lastBody, resolveVars, extractVars>>

(***************************************************************************)
(* Specifications                                                          *)
(***************************************************************************)
ResolveIdle ==
    /\ rawNumber = Null
    /\ features = Features(VUndef)
    /\ cands = <<>>
    /\ chosen = NoCand
    /\ prevOutcome = NoOutcome

ExtractIdle ==
    /\ doc = Document(VNull, <<>>)
    /\ doc0 = doc
    /\ dfn = Finish(DfnStart(doc))
    /\ expanded = <<>>
    /\ pops = 0
    /\ firstSeen = Null

DispatchIdle ==
    /\ pc = "idle"
    /\ body = Features(VUndef)
    /\ calls = <<>>
    /\ outcomes = <<>>
    /\ last = [status |-> 0, json |-> Document(VNull, <<>>)]
    /\ lastBody = [statusCode |-> 0, data |-> TextData(<<>>)]
    /\ result = NoResult
    /\ reply = NoReply

\* a request to /api/predict
Init == ResolveIdle /\ ExtractIdle /\ DispatchIdle
Next == Receive \/ PostJsonResolves \/ PostJsonRejects
Spec == Init /\ [][Next]_vars

\* one call of deepFindNumber, entered with any document
InitExtract ==
    /\ ResolveIdle
    /\ DispatchIdle
    /\ \/ \E l \in 0..MaxDocEntries :
              \E f \in [1..l -> Slots(NumNodes)] :
                  /\ IsHeapCode(f, NumNodes)
                  /\ doc = Document(VRef(1), Decode(f, NumNodes))
       \/ \E v \in ScalarRoots : doc = Document(v, <<>>)
    /\ doc0 = doc
    /\ dfn = DfnStart(doc)
    /\ expanded = [r \in DOMAIN doc.nodes |-> 0]
    /\ pops = 0
    /\ firstSeen = Null
NextExtract == DfnIterate \/ DfnReturn
SpecExtract == InitExtract /\ [][NextExtract]_vars

\* two calls of choosePlausibleTotal, one after the other
InitResolve == ResolveIdle /\ ExtractIdle /\ DispatchIdle
NextResolve == Resolve
SpecResolve == InitResolve /\ [][NextResolve]_vars

(***************************************************************************)
(* Properties                                                              *)
(***************************************************************************)
Settled == Len(outcomes)
NumbersAt == {i \in 1..Settled : isFinite(outcomes[i])}
RejectedAt == {i \in 1..Settled : outcomes[i] = Rejected}

\* the six (path, shape) combinations in their canonical order
CanonicalOrder ==
    << <<"/predict", "body">>, <<"/predict", "{data: body}">>,
       <<"/predict", "{data: [body]}">>,
       <<"/", "body">>, <<"/", "{data: body}">>, <<"/", "{data: [body]}">> >>

\* C1: the attempts of a dispatch are issued one at a time, in the canonical
\* order, each after the response of the one before is known; none is issued
\* after the first response that yields a finite number, and the result
\* carries the status, the raw body and the untransformed number of exactly
\* that attempt.
C1_OrderedOneAtATimeStopAtFirst ==
    /\ \A i \in 1..Len(calls) :
          i <= Len(CanonicalOrder) =>
              calls[i] = Call(CanonicalOrder[i][1], CanonicalOrder[i][2], body)
    /\ Len(calls) <= Settled + 1
    /\ pc = "awaiting" => Len(calls) = Settled + 1
    /\ \A i \in NumbersAt :
          /\ i = Settled
          /\ Len(calls) = i
          /\ pc = "responded"
          /\ result.kind = "value"
          /\ last = postJson(lastBody)
          /\ result.status = last.status
          /\ result.raw = last.json
          /\ result.predicted_price_raw = outcomes[i]
          /\ outcomes[i] = deepFindNumber(last.json)
          /\ reply.status = last.status
          /\ reply.raw = last.json
          /\ reply.predicted_price_raw = outcomes[i]

\* an upstream that answers only the 4th combination: exactly four calls
C1_Witness ==
    /\ pc = "responded"
    /\ Len(calls) = 4
    /\ NumbersAt = {4}
    /\ calls[4] = Call("/", "body", body)
    /\ result.predicted_price_raw = FromInt(800)
    /\ result.predicted_price # result.predicted_price_raw

\* C2: when none of the six attempts yields a number and no call fails, one
\* more call, the 7th and last, goes to /predict with the unwrapped body; a
\* number in its response is resolved, otherwise predicted_price_raw,
\* predicted_price and used_rule are null; the result carries the status and
\* raw body of that 7th call.  No dispatch issues more than seven calls.
C2_OneFallbackCall ==
    /\ Len(calls) <= 7
    /\ Settled <= 7
    /\ (Settled >= 6 /\ \A i \in 1..6 : outcomes[i] = Null) =>
          /\ Len(calls) = 7
          /\ calls[7] = Call("/predict", "body", body)
    /\ Len(calls) = 7 => \A i \in 1..6 : outcomes[i] = Null
    /\ (Settled = 7 /\ outcomes[7] # Rejected) =>
          /\ pc = "responded"
          /\ result.kind = "value"
          /\ last = postJson(lastBody)
          /\ result.status = last.status
          /\ result.raw = last.json
          /\ outcomes[7] = deepFindNumber(last.json)
          /\ IF isFinite(outcomes[7])
               THEN /\ result.predicted_price_raw = outcomes[7]
                    /\ result.predicted_price = choosePlausibleTotal(outcomes[7], body).n
                    /\ result.used_rule = choosePlausibleTotal(outcomes[7], body).rule
               ELSE /\ result.predicted_price_raw = Null
                    /\ result.predicted_price = Null
                    /\ result.used_rule = NullRule

C2_Witness ==
    /\ pc = "responded"
    /\ Settled = 7
    /\ outcomes[7] = Null
    /\ result.used_rule = NullRule
    /\ result.status = 500

\* C3: a call that fails at transport level aborts the dispatch at that
\* attempt: no later attempt and no fallback call is issued, and the caller
\* gets status 500 with ok false and an error message, and no predicted_price,
\* predicted_price_raw, used_rule or raw field.
C3_TransportErrorAborts ==
    \A i \in RejectedAt :
        /\ i = Settled
        /\ Len(calls) = i
        /\ pc = "responded"
        /\ result = Thrown
        /\ reply.status = 500
        /\ reply.ok = FALSE
        /\ "error" \in reply.fields
        /\ reply.error # Absent
        /\ reply.fields \cap {"predicted_price", "predicted_price_raw", "used_rule", "raw"} = {}

\* the third attempt fails
C3_Witness ==
    /\ RejectedAt = {3}
    /\ Len(calls) = 3
    /\ reply = ErrorReply

\* C4: a response whose body is not parsable as JSON counts as "no number
\* found": no result is ever built from such a response before the last call,
\* and a result built from the last call's unparsable response has no number.
C4_UnparsableIsNoNumber ==
    (pc = "responded" /\ result.kind = "value" /\ ~Parsable(lastBody.data)) =>
        /\ Settled = 7
        /\ result.predicted_price_raw = Null

\* C7: in every result, used_rule is null exactly when predicted_price is
\* null, and then predicted_price_raw is null too; when used_rule is 'raw',
\* predicted_price equals predicted_price_raw.
C7_RuleNullIffPriceNull ==
    result.kind = "value" =>
        /\ result.used_rule = NullRule <=> result.predicted_price = Null
        /\ result.predicted_price = Null => result.predicted_price_raw = Null
        /\ result.used_rule = "raw" => result.predicted_price = result.predicted_price_raw
        /\ reply.used_rule = result.used_rule
        /\ reply.predicted_price = result.predicted_price
        /\ reply.predicted_price_raw = result.predicted_price_raw

\* the fallback call answers with a number that resolves by the rule 'raw'
C7_Witness ==
    /\ pc = "responded"
    /\ Settled = 7
    /\ result.used_rule = "raw"
    /\ result.predicted_price = FromInt(5000000)

\* ---- deepFindNumber ------------------------------------------------------
\* C5: when the document holds a numeric value under a hit key, the value
\* returned is the value of a hit key; when it holds numeric values under
\* other keys only, the first of them met by the traversal is returned; null
\* is returned only when it holds no numeric value.
C5_HitKeyWins ==
    dfn.done =>
        /\ HitValues(doc) # {} => dfn.ret \in HitValues(doc)
        /\ (HitValues(doc) = {} /\ NonHitValues(doc) # {}) =>
              /\ dfn.ret \in NonHitValues(doc)
              /\ dfn.ret = firstSeen
        /\ dfn.ret = Null <=> HitValues(doc) \cup NonHitValues(doc) = {}

\* a hit found after a value under another key was met
C5_Witness ==
    /\ dfn.done
    /\ firstSeen = FromInt(3)
    /\ dfn.best = FromInt(3)
    /\ dfn.ret = FromInt(15)
    /\ pops >= 2

\* C9: on every document, cyclic and shared ones included, deepFindNumber
\* terminates: it runs at most one loop iteration for the root and one for
\* each object-valued entry of the document.  It iterates the entries of each
\* object at most once (an object popped again is skipped), and leaves the
\* document as it was.
C9_SingleVisitTerminates ==
    /\ \A r \in DOMAIN expanded : expanded[r] <= 1
    /\ \A r \in DOMAIN expanded : expanded[r] = 1 <=> r \in dfn.visited
    /\ pops <= 1 + Cardinality(ObjectEntries(doc))
    /\ Len(dfn.stack) + pops <= 1 + Cardinality(ObjectEntries(doc))
    /\ doc = doc0

\* two objects that hold each other; the third pop meets a visited one
C9_Witness ==
    /\ dfn.done
    /\ Len(doc.nodes) >= 2
    /\ 2 \in Children(doc, 1)
    /\ 1 \in Children(doc, 2)
    /\ expanded[1] = 1
    /\ expanded[2] = 1
    /\ pops >= 3

\* ---- choosePlausibleTotal ------------------------------------------------
InRange(c) == Leq(FromInt(50000), c.n) /\ Leq(c.n, FromInt(2000000000))
CandSet == {cands[i] : i \in 1..Len(cands)}
InRangeSet == {c \in CandSet : InRange(c)}
PerSqm(c) == c.rule \in {"per_sqm", "exp_per_sqm", "pow10_per_sqm"}
Resolved == chosen # NoCand

\* C6: with a candidate in [50000, 2000000000], the one returned is in that
\* range, is a per_sqm one whenever one of those is in range, and is the
\* largest in range of its class; with none in range, it is the largest of
\* all candidates.  Per-area candidates exist only when area > 0.
C6_PlausibleSelection ==
    Resolved =>
        /\ InRangeSet # {} =>
              /\ chosen \in InRangeSet
              /\ (\E c \in InRangeSet : PerSqm(c)) => PerSqm(chosen)
              /\ \A c \in InRangeSet : PerSqm(c) = PerSqm(chosen) => Leq(c.n, chosen.n)
        /\ InRangeSet = {} =>
              /\ chosen \in CandSet
              /\ \A c \in CandSet : Leq(c.n, chosen.n)
        /\ (\E c \in CandSet : PerSqm(c)) =>
              (ToNumber(features.procedure_area).k = "fin"
               /\ ToNumber(features.procedure_area).m > 0)
        /\ \A c \in CandSet :
              c.rule \in {"raw", "per_sqm", "exp_per_sqm", "pow10_per_sqm",
                          "exp", "pow10", "x1000"}

\* a per_sqm candidate in range wins over larger ones in range that are not
C6_Witness ==
    /\ Resolved
    /\ chosen.rule = "per_sqm"
    /\ \E c \in InRangeSet : ~PerSqm(c) /\ Cmp(c.n, chosen.n) > 0

\* C8: two resolutions that return the same rule are both in the plausible
\* range or both outside it.
C8_RuleTellsConfidence ==
    (Resolved /\ prevOutcome # NoOutcome /\ prevOutcome.rule = chosen.rule) =>
        prevOutcome.plausible = InRange(chosen)

IsCase10 ==
    /\ Resolved
    /\ rawNumber = Norm(125, -1)
    /\ ToNumber(features.procedure_area) = FromInt(1000)

\* C10 as stated: for rawNumber 12.5 and procedure_area 1000 no candidate is
\* in the plausible range and the largest of all candidates is returned.
C10_NoPlausibleCandidate ==
    IsCase10 =>
        /\ InRangeSet = {}
        /\ \A c \in CandSet : Leq(c.n, chosen.n)

\* C10: for rawNumber 12.5 and procedure_area 1000 the candidates exp (about
\* 268 thousand) and exp_per_sqm (about 268 million) are in the plausible
\* range, the others are not; exp_per_sqm is returned, which is not the
\* largest of all candidates.
C10_ExpPerSqmIsPlausible ==
    IsCase10 =>
        /\ {c.rule : c \in InRangeSet} = {"exp", "exp_per_sqm"}
        /\ chosen.rule = "exp_per_sqm"
        /\ Leq(FromInt(260000000), chosen.n)
        /\ Leq(chosen.n, FromInt(270000000))
        /\ \E c \in CandSet : Cmp(c.n, chosen.n) > 0

C10_Witness ==
    /\ IsCase10
    /\ features.procedure_area = VNum(FromInt(1000))
    /\ chosen.rule = "exp_per_sqm"

====
